---- MODULE Spec2Model ----
(***************************************************************************)
(* A model of profiling/stats.py: the statistics tree of a profiler.       *)
(*                                                                         *)
(* Objects live in two heaps.  Recording nodes (RecordingStatistics and    *)
(* VoidRecordingStatistics) are numbered 1..Len(kind); the fields of node  *)
(* i are kind[i], code[i], own_count[i], deep_time[i], _children[i] and    *)
(* lock[i].  Frozen nodes are numbered 1..Len(frozen) and frozen[i] is the *)
(* record of the slots of FrozenStatistics.  A reference to an object is   *)
(* <<"L", i>> (recording heap) or <<"F", i>> (frozen heap).  None is the   *)
(* empty tuple and any other optional value v is <<v>>.                    *)
(***************************************************************************)
EXTENDS Integers, Sequences, FiniteSets, TLC

VARIABLES kind, code, own_count, deep_time, _children, lock,
          frozen, last, ensured, created, snaps, after, shown, pc, frame

liveVars == <<kind, code, own_count, deep_time, _children>>
histVars == <<last, ensured, created, snaps, after, shown>>
vars == <<kind, code, own_count, deep_time, _children, lock,
          frozen, last, ensured, created, snaps, after, shown, pc, frame>>

(***************************************************************************)
(* Bounds of the model.                                                    *)
(***************************************************************************)
MaxNodes == 3
NumCodes == 2
MaxCount == 1
MaxTime == 1
MaxFrozen == 4
MaxSnaps == 2
MaxAfter == 1
NumThreads == 2
MaxSampled == 3
MaxCalls == 2

Codes == 1..NumCodes
Counts == 0..MaxCount
Times == 0..MaxTime
Threads == 1..NumThreads
Classes == {"RecordingStatistics", "VoidRecordingStatistics"}

None == <<>>
Some(v) == <<v>>

(***************************************************************************)
(* Code objects: the call-site identities the sampler passes in.  Odd      *)
(* codes are module-level code, even codes are functions named "f"; the    *)
(* module of code c is found by inspect.getmodule except for every third.  *)
(***************************************************************************)
co_name(c) == IF c % 2 = 1 THEN "<module>" ELSE "f"
co_filename(c) == "a.py"
co_firstlineno(c) == c
getmodule(c) == IF c % 3 = 0 THEN None ELSE Some("a")

(***************************************************************************)
(* A dict is the sequence of its items in insertion order.                 *)
(***************************************************************************)
Item(k, v) == [key |-> k, val |-> v]
DictHas(d, k) == \E i \in 1..Len(d) : d[i].key = k
DictIndex(d, k) == CHOOSE i \in 1..Len(d) : d[i].key = k
DictGet(d, k) == d[DictIndex(d, k)].val
DictSet(d, k, v) ==
    IF DictHas(d, k) THEN [d EXCEPT ![DictIndex(d, k)] = Item(k, v)]
    ELSE Append(d, Item(k, v))
DictDel(d, k) ==
    LET i == DictIndex(d, k)
    IN SubSeq(d, 1, i - 1) \o SubSeq(d, i + 1, Len(d))
DictPop(d, k) == IF DictHas(d, k) THEN DictDel(d, k) ELSE d
DictValues(d) == [i \in 1..Len(d) |-> d[i].val]

Live(i) == <<"L", i>>
Froz(i) == <<"F", i>>
IsLive(o) == o[1] = "L"
LiveNodes == 1..Len(kind)
FrozenNodes == 1..Len(frozen)
Objects == {Live(i) : i \in LiveNodes} \cup {Froz(i) : i \in FrozenNodes}

(***************************************************************************)
(* Attribute reads, by the class of the object.                            *)
(***************************************************************************)
Name(o) ==
    IF IsLive(o)
    THEN IF code[o[2]] = None THEN None
         ELSE IF co_name(code[o[2]][1]) = "<module>" THEN None
         ELSE Some(co_name(code[o[2]][1]))
    ELSE frozen[o[2]].name
Filename(o) ==
    IF IsLive(o)
    THEN IF code[o[2]] = None THEN None ELSE Some(co_filename(code[o[2]][1]))
    ELSE frozen[o[2]].filename
Lineno(o) ==
    IF IsLive(o)
    THEN IF code[o[2]] = None THEN None ELSE Some(co_firstlineno(code[o[2]][1]))
    ELSE frozen[o[2]].lineno
Module(o) ==
    IF IsLive(o)
    THEN IF code[o[2]] = None THEN None ELSE getmodule(code[o[2]][1])
    ELSE frozen[o[2]].module

Iter(o) ==
    IF IsLive(o) THEN DictValues(_children[o[2]]) ELSE frozen[o[2]]._children
LenOf(o) ==
    IF IsLive(o) THEN Len(_children[o[2]]) ELSE Len(frozen[o[2]]._children)

RECURSIVE SumSeq(_)
SumSeq(s) == IF s = <<>> THEN 0 ELSE Head(s) + SumSeq(Tail(s))

DeepTimeStored(o) ==
    IF ~IsLive(o) THEN frozen[o[2]].deep_time ELSE deep_time[o[2]]

RECURSIVE DeepTime(_)
DeepTime(o) ==
    IF ~IsLive(o) THEN frozen[o[2]].deep_time
    ELSE IF kind[o[2]] = "VoidRecordingStatistics"
    THEN SumSeq([i \in 1..Len(Iter(o)) |-> DeepTime(Iter(o)[i])])
    ELSE deep_time[o[2]]

OwnCount(o) ==
    IF ~IsLive(o) THEN frozen[o[2]].own_count
    ELSE IF kind[o[2]] = "VoidRecordingStatistics" THEN 0
    ELSE own_count[o[2]]

DeepCountShallow(o) ==
    OwnCount(o) + SumSeq([i \in 1..Len(Iter(o)) |-> OwnCount(Iter(o)[i])])

RECURSIVE DeepCount(_)
DeepCount(o) ==
    OwnCount(o) + SumSeq([i \in 1..Len(Iter(o)) |-> DeepCount(Iter(o)[i])])

OwnTimeNoFloor(o) ==
    DeepTime(o) - SumSeq([i \in 1..Len(Iter(o)) |-> DeepTime(Iter(o)[i])])

OwnTime(o) ==
    LET sub_time == SumSeq([i \in 1..Len(Iter(o)) |-> DeepTime(Iter(o)[i])])
        d == DeepTime(o) - sub_time
    IN IF d > 0 THEN d ELSE 0

(***************************************************************************)
(* True division.  A quotient is the pair <<numerator, denominator>>; the  *)
(* float 0.0 is <<0, 1>>.                                                  *)
(***************************************************************************)
ZeroDivisionError == <<"ZeroDivisionError">>
TrueDiv(a, b) == IF b = 0 THEN ZeroDivisionError ELSE <<a, b>>
DeepTimePerCallUncaught(o) == TrueDiv(DeepTime(o), OwnCount(o))

DeepTimePerCall(o) ==
    LET q == TrueDiv(DeepTime(o), OwnCount(o))
    IN IF q = ZeroDivisionError THEN <<0, 1>> ELSE q
OwnTimePerCall(o) ==
    LET q == TrueDiv(OwnTime(o), OwnCount(o))
    IN IF q = ZeroDivisionError THEN <<0, 1>> ELSE q

Hash(o) == <<Name(o), Filename(o), Lineno(o)>>
Eq(a, b) == a = b

(***************************************************************************)
(* Construction.  StatisticsMeta.__new__ gives every class its own         *)
(* __defaults__: the slots the class body itself binds to a default(...).  *)
(* StatisticsMeta.__call__ runs __init__ and then sets those defaults on   *)
(* the attributes that are still unset: own_count and deep_time for        *)
(* RecordingStatistics, nothing for the void class, whose two counters are *)
(* properties.  The counter slots of a void node are never read or         *)
(* written; the heap keeps a 0 in them.                                    *)
(***************************************************************************)
FreeLock == [owner |-> 0, count |-> 0]
Slots(cls) ==
    IF cls = "RecordingStatistics"
    THEN {"own_count", "deep_time", "code", "lock", "_children"}
    ELSE IF cls = "VoidRecordingStatistics"
    THEN {"code", "lock", "_children"}
    ELSE IF cls = "FrozenStatistics"
    THEN {"name", "filename", "lineno", "module", "own_count", "deep_time",
          "_children"}
    ELSE {"name", "filename", "lineno", "module", "own_count", "deep_time"}
Declared(cls) ==
    IF cls = "RecordingStatistics" THEN {"own_count", "deep_time"}
    ELSE IF cls = "Statistics"
    THEN {"name", "filename", "lineno", "module", "own_count", "deep_time"}
    ELSE {}
Defaults(cls) == Slots(cls) \cap Declared(cls)
DefaultOwnCount == 0
DefaultDeepTime == 0

NewKind(cls) == Append(kind, cls)
NewCode(c) == Append(code, c)
NewOwnCount(cls) ==
    Append(own_count,
           IF "own_count" \in Defaults(cls) THEN DefaultOwnCount ELSE 0)
NewDeepTime(cls) ==
    Append(deep_time,
           IF "deep_time" \in Defaults(cls) THEN DefaultDeepTime ELSE 0)
NewChildren == Append(_children, <<>>)
NewLock == Append(lock, FreeLock)

RECURSIVE Reach(_)
Reach(i) ==
    {i} \cup UNION {Reach(DictValues(_children[i])[j][2]) :
                        j \in 1..Len(_children[i])}

RECURSIVE TreeSize(_)
TreeSize(i) ==
    1 + SumSeq([j \in 1..Len(_children[i]) |->
                    TreeSize(DictValues(_children[i])[j][2])])

(***************************************************************************)
(* FrozenStatistics(stats): the slots are copied from stats in the order   *)
(* of __slots__ (the last of them, _children, is then replaced by the list *)
(* _freeze_children returns), and every child is frozen in the order the   *)
(* dict yields it.  A frozen object gets the next free number.             *)
(***************************************************************************)
RECURSIVE FreezeNode(_, _)
RECURSIVE FreezeEach(_, _, _)
FreezeEachReversed(fz, todo, acc) ==
    IF todo = <<>> THEN [heap |-> fz, list |-> acc]
    ELSE FreezeEach(FreezeNode(fz, Head(todo)[2]), Tail(todo),
                    <<Froz(Len(fz) + 1)>> \o acc)

FreezeEach(fz, todo, acc) ==
    IF todo = <<>> THEN [heap |-> fz, list |-> acc]
    ELSE FreezeEach(FreezeNode(fz, Head(todo)[2]), Tail(todo),
                    Append(acc, Froz(Len(fz) + 1)))

ShallowFreezeChildren(fz, stats) ==
    [heap |-> fz, list |-> Iter(Live(stats))]

FreezeChildren(fz, stats) == FreezeEach(fz, Iter(Live(stats)), <<>>)

FreezeNode(fz, stats) ==
    LET self == Len(fz) + 1
        copied == [name |-> Name(Live(stats)),
                   filename |-> Filename(Live(stats)),
                   lineno |-> Lineno(Live(stats)),
                   module |-> Module(Live(stats)),
                   own_count |-> OwnCount(Live(stats)),
                   deep_time |-> DeepTime(Live(stats)),
                   _children |-> <<>>,
                   unset |-> {}]
        done == FreezeChildren(Append(fz, copied), stats)
    IN [done.heap EXCEPT ![self]._children = done.list]

(***************************************************************************)
(* The operations, each called by a single caller and run to completion    *)
(* (the node's lock is free before the call and free again after it).      *)
(* Every operation comes with the outcome of the call: its arguments, the  *)
(* value it returns and the exception it raises.                           *)
(* add_child is given a node that is not yet in the tree: a node that is   *)
(* nobody's child and not the root.                                        *)
(***************************************************************************)
Call(op, self, k, ret, exc) ==
    [op |-> op, self |-> self, code |-> k, ret |-> ret, exc |-> exc,
     again |-> FALSE]

Parents(s) ==
    {p \in LiveNodes : \E j \in 1..Len(_children[p]) :
                           _children[p][j].val = Live(s)}
Detached(s) == s # 1 /\ Parents(s) = {}

New(cls, c) ==
    /\ Len(kind) < MaxNodes
    /\ kind' = NewKind(cls)
    /\ code' = NewCode(Some(c))
    /\ own_count' = NewOwnCount(cls)
    /\ deep_time' = NewDeepTime(cls)
    /\ _children' = NewChildren
    /\ lock' = NewLock
    /\ UNCHANGED <<frozen, pc, frame>>
NewCall(cls, c) == Call("new", 0, c, Some(Live(Len(kind) + 1)), "")

GetChild(p, k) ==
    UNCHANGED <<liveVars, lock, frozen, pc, frame>>
GetChildCall(p, k) ==
    IF DictHas(_children[p], k)
    THEN Call("get_child", p, k, Some(DictGet(_children[p], k)), "")
    ELSE Call("get_child", p, k, None, "KeyError")

AddChild(p, k, stats) ==
    /\ Detached(stats)
    /\ p \notin Reach(stats)
    /\ _children' = [_children EXCEPT ![p] = DictSet(@, k, Live(stats))]
    /\ UNCHANGED <<kind, code, own_count, deep_time, lock, frozen, pc, frame>>
AddChildCall(p, k, stats) == Call("add_child", p, k, None, "")

RemoveChildClear(p, k) ==
    /\ IF DictHas(_children[p], k)
       THEN _children' = [_children EXCEPT ![p] = <<>>]
       ELSE UNCHANGED _children
    /\ UNCHANGED <<kind, code, own_count, deep_time, lock, frozen, pc, frame>>

RemoveChild(p, k) ==
    /\ IF DictHas(_children[p], k)
       THEN _children' = [_children EXCEPT ![p] = DictDel(@, k)]
       ELSE UNCHANGED _children
    /\ UNCHANGED <<kind, code, own_count, deep_time, lock, frozen, pc, frame>>
RemoveChildCall(p, k) ==
    IF DictHas(_children[p], k)
    THEN Call("remove_child", p, k, None, "")
    ELSE Call("remove_child", p, k, None, "KeyError")

DiscardChild(p, k) ==
    /\ _children' = [_children EXCEPT ![p] = DictPop(@, k)]
    /\ UNCHANGED <<kind, code, own_count, deep_time, lock, frozen, pc, frame>>
DiscardChildCall(p, k) == Call("discard_child", p, k, None, "")

StatClassFixed(p, adding_stat_class) ==
    IF adding_stat_class = None THEN "RecordingStatistics"
    ELSE adding_stat_class[1]

StatClass(p, adding_stat_class) ==
    IF adding_stat_class = None THEN kind[p] ELSE adding_stat_class[1]

EnsureChildAlwaysNew(p, k, adding_stat_class) ==
    LET stat_class == StatClass(p, adding_stat_class)
        stats == Live(Len(kind) + 1)
    IN /\ Len(kind) < MaxNodes
       /\ kind' = NewKind(stat_class)
       /\ code' = NewCode(Some(k))
       /\ own_count' = NewOwnCount(stat_class)
       /\ deep_time' = NewDeepTime(stat_class)
       /\ _children' = [NewChildren EXCEPT ![p] = DictSet(@, k, stats)]
       /\ lock' = NewLock
       /\ UNCHANGED <<frozen, pc, frame>>

EnsureChild(p, k, adding_stat_class) ==
    IF DictHas(_children[p], k)
    THEN UNCHANGED <<liveVars, lock, frozen, pc, frame>>
    ELSE LET stat_class == StatClass(p, adding_stat_class)
             stats == Live(Len(kind) + 1)
         IN /\ Len(kind) < MaxNodes
            /\ kind' = NewKind(stat_class)
            /\ code' = NewCode(Some(k))
            /\ own_count' = NewOwnCount(stat_class)
            /\ deep_time' = NewDeepTime(stat_class)
            /\ _children' = [NewChildren EXCEPT ![p] = DictSet(@, k, stats)]
            /\ lock' = NewLock
            /\ UNCHANGED <<frozen, pc, frame>>
EnsureChildCall(p, k, adding_stat_class) ==
    Call("ensure_child", p, k, Some(DictGet(_children'[p], k)), "")

SetOwnCount(n, v) ==
    /\ IF kind[n] = "VoidRecordingStatistics"
       THEN UNCHANGED own_count
       ELSE own_count' = [own_count EXCEPT ![n] = v]
    /\ UNCHANGED <<kind, code, deep_time, _children, lock, frozen, pc, frame>>

SetDeepTime(n, v) ==
    /\ IF kind[n] = "VoidRecordingStatistics"
       THEN UNCHANGED deep_time
       ELSE deep_time' = [deep_time EXCEPT ![n] = v]
    /\ UNCHANGED <<kind, code, own_count, _children, lock, frozen, pc, frame>>

FreezeAndReset(n) ==
    /\ Len(frozen) + TreeSize(n) <= MaxFrozen
    /\ frozen' = FreezeNode(frozen, n)
    /\ own_count' = [own_count EXCEPT ![n] = 0]
    /\ UNCHANGED <<kind, code, deep_time, _children, lock, pc, frame>>

Freeze(n) ==
    /\ Len(frozen) + TreeSize(n) <= MaxFrozen
    /\ frozen' = FreezeNode(frozen, n)
    /\ UNCHANGED <<liveVars, lock, pc, frame>>

FreezeCall(n) == Call("freeze", n, 0, Some(Froz(Len(frozen) + 1)), "")

IdleFrame == [self |-> 0, code |-> 0, cls |-> None, ret |-> None]

Init ==
    /\ kind = <<"RecordingStatistics">>
    /\ code = <<None>>
    /\ own_count = <<0>>
    /\ deep_time = <<0>>
    /\ _children = << <<>> >>
    /\ lock = <<FreeLock>>
    /\ frozen = <<>>
    /\ last = Call("init", 0, 0, None, "")
    /\ ensured = {}
    /\ created = {}
    /\ snaps = <<>>
    /\ after = 0
    /\ shown = <<>>
    /\ pc = [t \in Threads |-> "idle"]
    /\ frame = [t \in Threads |-> IdleFrame]

StatClasses == {None} \cup {Some(x) : x \in Classes}

(***************************************************************************)
(* Spec: one caller builds and prunes the tree and every call's outcome is  *)
(* observed.  last is the outcome of the call that                         *)
(* completed last, and ensured holds <<p, k, child>> when ensure_child(k)  *)
(* on p returned child and no add_child, remove_child or discard_child of  *)
(* k was called on p since; last.again says that the call was an           *)
(* ensure_child(k) on p made while ensured held such a triple.             *)
(***************************************************************************)
Observe(call) ==
    /\ last' = [call EXCEPT !.again =
                   /\ call.op = "ensure_child"
                   /\ \E e \in ensured : e[1] = call.self /\ e[2] = call.code]
    /\ ensured' =
         IF call.op = "ensure_child"
         THEN ensured \cup {<<call.self, call.code, call.ret[1]>>}
         ELSE IF call.op \in {"add_child", "remove_child", "discard_child"}
         THEN {e \in ensured : ~(e[1] = call.self /\ e[2] = call.code)}
         ELSE ensured
    /\ UNCHANGED <<created, snaps, after, shown>>

Next ==
    \/ \E cls \in Classes, c \in Codes :
          New(cls, c) /\ Observe(NewCall(cls, c))
    \/ \E p \in LiveNodes, k \in Codes :
          GetChild(p, k) /\ Observe(GetChildCall(p, k))
    \/ \E p \in LiveNodes, k \in Codes, s \in LiveNodes :
          AddChild(p, k, s) /\ Observe(AddChildCall(p, k, s))
    \/ \E p \in LiveNodes, k \in Codes :
          RemoveChild(p, k) /\ Observe(RemoveChildCall(p, k))
    \/ \E p \in LiveNodes, k \in Codes :
          DiscardChild(p, k) /\ Observe(DiscardChildCall(p, k))
    \/ \E p \in LiveNodes, k \in Codes, c \in StatClasses :
          EnsureChild(p, k, c) /\ Observe(EnsureChildCall(p, k, c))

Spec == Init /\ [][Next]_vars

(***************************************************************************)
(* SpecFreeze: the caller builds and prunes the tree, writes the counters   *)
(* and freezes subtrees; outcomes are not observed.  snaps lists the       *)
(* snapshots taken since the recording heap last changed, as               *)
(* [stats |-> the node frozen, root |-> its frozen copy]; after counts the *)
(* changes made to the recording heap since the first snapshot.  The       *)
(* snapshots are taken before the heap changes again, and the heap changes *)
(* at most MaxAfter times after them.  shown[f] is what the frozen node f  *)
(* showed its reader when the freeze that made it returned.                *)
(***************************************************************************)
FrozenView(f) ==
    [name |-> Name(Froz(f)), filename |-> Filename(Froz(f)),
     lineno |-> Lineno(Froz(f)), module |-> Module(Froz(f)),
     own_count |-> OwnCount(Froz(f)), deep_time |-> DeepTime(Froz(f)),
     children |-> Iter(Froz(f)), deep_count |-> DeepCount(Froz(f)),
     own_time |-> OwnTime(Froz(f))]

Track ==
    /\ snaps' = IF liveVars' = liveVars THEN snaps ELSE <<>>
    /\ after' = IF frozen = <<>> \/ liveVars' = liveVars THEN after
                ELSE after + 1
    /\ after' <= MaxAfter
    /\ UNCHANGED <<last, ensured, created, shown>>

TrackFreeze(n) ==
    /\ Len(snaps) < MaxSnaps
    /\ after = 0
    /\ snaps' = Append(snaps, [stats |-> n, root |-> Len(frozen) + 1])
    /\ shown' = [f \in 1..Len(frozen') |->
                    IF f <= Len(frozen) THEN shown[f] ELSE FrozenView(f)']
    /\ UNCHANGED <<last, ensured, created, after>>

NextFreeze ==
    \/ \E p \in LiveNodes, k \in Codes, s \in LiveNodes :
          AddChild(p, k, s) /\ Track
    \/ \E p \in LiveNodes, k \in Codes : RemoveChild(p, k) /\ Track
    \/ \E p \in LiveNodes, k \in Codes : DiscardChild(p, k) /\ Track
    \/ \E p \in LiveNodes, k \in Codes, c \in StatClasses :
          EnsureChild(p, k, c) /\ Track
    \/ \E n \in LiveNodes, v \in Counts : SetOwnCount(n, v) /\ Track
    \/ \E n \in LiveNodes, v \in Times : SetDeepTime(n, v) /\ Track
    \/ \E n \in LiveNodes : Freeze(n) /\ TrackFreeze(n)

SpecFreeze == Init /\ [][NextFreeze]_vars

(***************************************************************************)
(* SpecEnsure: NumThreads threads call ensure_child on the nodes of one    *)
(* tree, and a thread may be switched out between any two of its steps.    *)
(* lock[n] is the RLock of node n: its owner (0 when free) and how many    *)
(* times the owner has acquired it.  frame[t] holds the arguments and the  *)
(* local stats of the call thread t is in, pc[t] the statement it is at.   *)
(* created holds <<p, k, child>> for every child an ensure_child(k) on p   *)
(* constructed, and ensured <<p, k, child>> for every child one returned.  *)
(* A call starts only if the heap has room for the node it may construct.  *)
(***************************************************************************)
CanAcquire(t, n) == lock[n].owner \in {0, t}
Acquire(t, n) ==
    [lock EXCEPT ![n] = [owner |-> t, count |-> @.count + 1]]
Release(t, n) ==
    [lock EXCEPT ![n] = IF @.count = 1 THEN FreeLock
                        ELSE [owner |-> t, count |-> @.count - 1]]

MayConstruct ==
    {t \in Threads : pc[t] \in {"ensure_lock", "get_lock", "get_read",
                                "ensure_new"}}

EnsureCall(t, p, k, adding_stat_class) ==
    /\ pc[t] = "idle"
    /\ Len(kind) + Cardinality(MayConstruct) < MaxNodes
    /\ pc' = [pc EXCEPT ![t] = "ensure_lock"]
    /\ frame' = [frame EXCEPT ![t] = [self |-> p, code |-> k,
                                      cls |-> adding_stat_class, ret |-> None]]
    /\ UNCHANGED <<liveVars, lock, frozen, last, ensured, created, snaps, shown>>

EnsureLockSkipped(t) ==
    /\ pc[t] = "ensure_lock"
    /\ pc' = [pc EXCEPT ![t] = "get_lock"]
    /\ UNCHANGED <<liveVars, lock, frozen, histVars, frame>>

EnsureLock(t) ==
    /\ pc[t] = "ensure_lock"
    /\ CanAcquire(t, frame[t].self)
    /\ lock' = Acquire(t, frame[t].self)
    /\ pc' = [pc EXCEPT ![t] = "get_lock"]
    /\ UNCHANGED <<liveVars, frozen, histVars, frame>>

GetLock(t) ==
    /\ pc[t] = "get_lock"
    /\ CanAcquire(t, frame[t].self)
    /\ lock' = Acquire(t, frame[t].self)
    /\ pc' = [pc EXCEPT ![t] = "get_read"]
    /\ UNCHANGED <<liveVars, frozen, histVars, frame>>

GetRead(t) ==
    /\ pc[t] = "get_read"
    /\ lock[frame[t].self].owner = t
    /\ lock' = Release(t, frame[t].self)
    /\ IF DictHas(_children[frame[t].self], frame[t].code)
       THEN /\ frame' = [frame EXCEPT ![t].ret =
                           Some(DictGet(_children[frame[t].self], frame[t].code))]
            /\ pc' = [pc EXCEPT ![t] = "ensure_unlock"]
       ELSE /\ pc' = [pc EXCEPT ![t] = "ensure_new"]
            /\ UNCHANGED frame
    /\ UNCHANGED <<liveVars, frozen, histVars>>

EnsureNew(t) ==
    LET stat_class == StatClass(frame[t].self, frame[t].cls)
        stats == Live(Len(kind) + 1)
    IN /\ pc[t] = "ensure_new"
       /\ Len(kind) < MaxNodes
       /\ kind' = NewKind(stat_class)
       /\ code' = NewCode(Some(frame[t].code))
       /\ own_count' = NewOwnCount(stat_class)
       /\ deep_time' = NewDeepTime(stat_class)
       /\ _children' = NewChildren
       /\ lock' = NewLock
       /\ frame' = [frame EXCEPT ![t].ret = Some(stats)]
       /\ created' = created \cup {<<frame[t].self, frame[t].code, stats>>}
       /\ pc' = [pc EXCEPT ![t] = "add_lock"]
       /\ UNCHANGED <<frozen, last, ensured, snaps, after, shown>>

AddLock(t) ==
    /\ pc[t] = "add_lock"
    /\ CanAcquire(t, frame[t].self)
    /\ lock' = Acquire(t, frame[t].self)
    /\ pc' = [pc EXCEPT ![t] = "add_write"]
    /\ UNCHANGED <<liveVars, frozen, histVars, frame>>

AddWrite(t) ==
    /\ pc[t] = "add_write"
    /\ lock[frame[t].self].owner = t
    /\ _children' = [_children EXCEPT ![frame[t].self] =
                        DictSet(@, frame[t].code, frame[t].ret[1])]
    /\ lock' = Release(t, frame[t].self)
    /\ pc' = [pc EXCEPT ![t] = "ensure_unlock"]
    /\ UNCHANGED <<kind, code, own_count, deep_time, frozen, histVars, frame>>

EnsureUnlock(t) ==
    /\ pc[t] = "ensure_unlock"
    /\ lock[frame[t].self].owner = t
    /\ lock' = Release(t, frame[t].self)
    /\ ensured' = ensured \cup {<<frame[t].self, frame[t].code, frame[t].ret[1]>>}
    /\ pc' = [pc EXCEPT ![t] = "idle"]
    /\ frame' = [frame EXCEPT ![t] = IdleFrame]
    /\ UNCHANGED <<liveVars, frozen, last, created, snaps, after, shown>>

NextEnsure ==
    \E t \in Threads :
        \/ \E p \in LiveNodes, k \in Codes, c \in StatClasses :
              EnsureCall(t, p, k, c) /\ UNCHANGED after
        \/ EnsureLock(t)
        \/ GetLock(t)
        \/ GetRead(t)
        \/ EnsureNew(t)
        \/ AddLock(t)
        \/ AddWrite(t)
        \/ EnsureUnlock(t)

SpecEnsure == Init /\ [][NextEnsure]_vars

(***************************************************************************)
(* Store and restore.  __reduce__ lists the values of the slots of the     *)
(* object's class, in the order of __slots__, and names stats_from_members *)
(* as the function that rebuilds the object from them; reading a slot that *)
(* was never set raises AttributeError.  Pickling then pickles every       *)
(* listed value: a list of frozen nodes is pickled node by node in the     *)
(* same way, and an RLock cannot be pickled (TypeError).  Because          *)
(* __reduce__ is defined, pickling never calls __getstate__; called        *)
(* directly, __getstate__ of a recording node raises TypeError.            *)
(* A frozen object is the record of its slots together with unset, the     *)
(* names of the slots that were never assigned.                            *)
(***************************************************************************)
SlotSeq(cls) ==
    IF cls = "RecordingStatistics"
    THEN <<"own_count", "deep_time", "code", "lock", "_children">>
    ELSE IF cls = "VoidRecordingStatistics"
    THEN <<"code", "lock", "_children">>
    ELSE IF cls = "FrozenStatistics"
    THEN <<"name", "filename", "lineno", "module", "own_count", "deep_time",
           "_children">>
    ELSE <<"name", "filename", "lineno", "module", "own_count", "deep_time">>

ClassOf(o) == IF IsLive(o) THEN kind[o[2]] ELSE "FrozenStatistics"

GetAttr(o, attr) ==
    IF IsLive(o)
    THEN IF attr = "own_count" THEN own_count[o[2]]
         ELSE IF attr = "deep_time" THEN deep_time[o[2]]
         ELSE IF attr = "code" THEN code[o[2]]
         ELSE IF attr = "lock" THEN lock[o[2]]
         ELSE _children[o[2]]
    ELSE frozen[o[2]][attr]

HasAttr(o, attr) == IsLive(o) \/ attr \notin frozen[o[2]].unset

Reduce(o) ==
    [i \in 1..Len(SlotSeq(ClassOf(o))) |-> GetAttr(o, SlotSeq(ClassOf(o))[i])]

Picklable(attr) == attr # "lock"

SlotIndex(cls, attr) ==
    CHOOSE i \in 1..Len(SlotSeq(cls)) : SlotSeq(cls)[i] = attr

RECURSIVE Pickled(_)
Pickled(o) ==
    LET cls == ClassOf(o)
        members == Reduce(o)
        kids == members[SlotIndex(cls, "_children")]
    IN [cls |-> cls,
        members |-> [members EXCEPT ![SlotIndex(cls, "_children")] =
                        [j \in 1..Len(kids) |-> Pickled(kids[j])]]]

Dumped(o, ret, exc) == [obj |-> o] @@ Call("dumps", 0, 0, ret, exc)

DumpsCallUnguarded(o) ==
    IF \E i \in 1..Len(SlotSeq(ClassOf(o))) :
           ~HasAttr(o, SlotSeq(ClassOf(o))[i])
    THEN Dumped(o, None, "AttributeError")
    ELSE IF IsLive(o) THEN Dumped(o, Some(Reduce(o)), "")
    ELSE Dumped(o, Some(Pickled(o)), "")

DumpsCall(o) ==
    IF \E i \in 1..Len(SlotSeq(ClassOf(o))) :
           ~HasAttr(o, SlotSeq(ClassOf(o))[i])
    THEN Dumped(o, None, "AttributeError")
    ELSE IF \E i \in 1..Len(SlotSeq(ClassOf(o))) :
                ~Picklable(SlotSeq(ClassOf(o))[i])
    THEN Dumped(o, None, "TypeError")
    ELSE Dumped(o, Some(Pickled(o)), "")

Dumps(o) == UNCHANGED <<liveVars, lock, frozen, pc, frame>>

GetState(n) == UNCHANGED <<liveVars, lock, frozen, pc, frame>>
GetStateCall(n) ==
    [obj |-> Live(n)] @@ Call("__getstate__", 0, 0, None, "TypeError")

(***************************************************************************)
(* Restore.  stats_from_members calls the class with no argument and sets  *)
(* the listed values on the slots of the class, pairing them in order.     *)
(* FrozenStatistics() assigns _children and nothing else, and              *)
(* StatisticsMeta.__call__ then sets the defaults of the class on the      *)
(* slots that are still unset.  Unpickling rebuilds the listed values      *)
(* first, the frozen children among them, and the object after them.       *)
(***************************************************************************)
FrozenInit ==
    [name |-> None, filename |-> None, lineno |-> None, module |-> None,
     own_count |-> 0, deep_time |-> 0, _children |-> <<>>,
     unset |-> {"name", "filename", "lineno", "module", "own_count",
                "deep_time"}]

DefaultValue(attr) ==
    IF attr = "own_count" THEN DefaultOwnCount
    ELSE IF attr = "deep_time" THEN DefaultDeepTime
    ELSE None

SetAttr(obj, attr, value) ==
    [obj EXCEPT ![attr] = value, !.unset = @ \ {attr}]

RECURSIVE SetDefaults(_, _)
SetDefaults(obj, attrs) ==
    IF attrs = {} THEN obj
    ELSE LET attr == CHOOSE a \in attrs : TRUE
         IN SetDefaults(IF attr \in obj.unset
                        THEN SetAttr(obj, attr, DefaultValue(attr)) ELSE obj,
                        attrs \ {attr})

MetaCall(cls, obj) == SetDefaults(obj, Defaults(cls))

RECURSIVE SetEach(_, _, _)
SetEach(obj, slots, members) ==
    IF slots = <<>> \/ members = <<>> THEN obj
    ELSE SetEach(SetAttr(obj, Head(slots), Head(members)),
                 Tail(slots), Tail(members))

StatsFromMembersBaseSlots(stats_class, members) ==
    SetEach(MetaCall(stats_class, FrozenInit), SlotSeq("Statistics"), members)

StatsFromMembers(stats_class, members) ==
    SetEach(MetaCall(stats_class, FrozenInit), SlotSeq(stats_class), members)

RECURSIVE DataSize(_)
DataSize(data) ==
    LET kids == data.members[SlotIndex(data.cls, "_children")]
    IN 1 + SumSeq([j \in 1..Len(kids) |-> DataSize(kids[j])])

RECURSIVE LoadsNode(_, _)
RECURSIVE LoadsEach(_, _, _)
LoadsEach(fz, todo, acc) ==
    IF todo = <<>> THEN [heap |-> fz, list |-> acc]
    ELSE LET done == LoadsNode(fz, Head(todo))
         IN LoadsEach(done, Tail(todo), Append(acc, Froz(Len(done))))

LoadsNode(fz, data) ==
    LET at == SlotIndex(data.cls, "_children")
        kids == LoadsEach(fz, data.members[at], <<>>)
    IN Append(kids.heap,
              StatsFromMembers(data.cls,
                               [data.members EXCEPT ![at] = kids.list]))

NewFrozen ==
    /\ Len(frozen) < MaxFrozen
    /\ \A f \in FrozenNodes : frozen[f].unset = {}
    /\ frozen' = Append(frozen, MetaCall("FrozenStatistics", FrozenInit))
    /\ UNCHANGED <<liveVars, lock, pc, frame>>
NewFrozenCall == Call("FrozenStatistics", 0, 0, Some(Froz(Len(frozen) + 1)), "")

Loads(data) ==
    /\ Len(frozen) + DataSize(data) <= MaxFrozen
    /\ frozen' = LoadsNode(frozen, data)
    /\ UNCHANGED <<liveVars, lock, pc, frame>>
LoadsCall(data) ==
    [obj |-> last.obj] @@ Call("loads", 0, 0, Some(Froz(Len(frozen'))), "")

(***************************************************************************)
(* SpecStore: one caller grows the tree with ensure_child and writes the   *)
(* counters of its nodes, recording and void alike; last is the outcome of *)
(* the call that completed last, with the requested class of an            *)
(* ensure_child in last.cls and the object of a dumps in last.obj.  The    *)
(* caller takes its snapshots, and stores and restores them, once sampling *)
(* has stopped: the recording heap changes until the first freeze.         *)
(***************************************************************************)
SetOwnCountCall(n, v) == Call("set_own_count", n, v, None, "")
SetDeepTimeCall(n, v) == Call("set_deep_time", n, v, None, "")

Note(call) ==
    /\ last' = call
    /\ UNCHANGED <<ensured, created, snaps, after, shown>>

Sampling == frozen = <<>>

NextStore ==
    \/ \E p \in LiveNodes, k \in Codes, c \in StatClasses :
          /\ Sampling
          /\ EnsureChild(p, k, c)
          /\ Note([cls |-> c] @@ EnsureChildCall(p, k, c))
    \/ \E n \in LiveNodes, v \in Counts :
          Sampling /\ SetOwnCount(n, v) /\ Note(SetOwnCountCall(n, v))
    \/ \E n \in LiveNodes, v \in Times :
          Sampling /\ SetDeepTime(n, v) /\ Note(SetDeepTimeCall(n, v))
    \/ \E n \in LiveNodes : Freeze(n) /\ Note(FreezeCall(n))
    \/ \E o \in Objects : Dumps(o) /\ Note(DumpsCall(o))
    \/ \E n \in LiveNodes : GetState(n) /\ Note(GetStateCall(n))
    \/ /\ last.op = "dumps"
       /\ last.exc = ""
       /\ Loads(last.ret[1])
       /\ Note(LoadsCall(last.ret[1]))
    \/ NewFrozen /\ Note(NewFrozenCall)

SpecStore == Init /\ [][NextStore]_vars

(***************************************************************************)
(* FrozenStatistics(stats) run by a thread, statement by statement.  The   *)
(* thread's frame holds the stack of the calls of __init__ it is in; an    *)
(* entry of the stack is [stats |-> the recording node, self |-> the       *)
(* frozen object under construction, at |-> the position of the iteration  *)
(* over stats, list |-> the frozen children made so far].  __init__ reads  *)
(* the attributes of stats one after the other without taking its lock     *)
(* (the four attributes that derive from code, which never changes, are    *)
(* read in one step); _freeze_children then takes the lock of stats and    *)
(* constructs the frozen copy of every child inside the with block, so the *)
(* lock is released when the list is complete.  A freeze starts only if    *)
(* the frozen heap has room for a copy of every recording node.  The       *)
(* steps leave shown, and the start of a call leaves after, to the         *)
(* specification that takes them.                                          *)
(***************************************************************************)
Stack(t) == frame[t].stack
Top(t) == Stack(t)[Len(Stack(t))]
SetTop(t, entry) == [Stack(t) EXCEPT ![Len(Stack(t))] = entry]
Entry(stats) == [stats |-> stats, self |-> 0, at |-> 1, list |-> <<>>]

StartFreeze(t, n) ==
    /\ pc[t] = "idle"
    /\ Len(frozen) + MaxNodes <= MaxFrozen
    /\ pc' = [pc EXCEPT ![t] = "fz_init"]
    /\ frame' = [frame EXCEPT ![t] =
                    [stack |-> <<Entry(n)>>] @@ [IdleFrame EXCEPT !.self = n]]
    /\ UNCHANGED <<liveVars, lock, frozen, last, ensured, created, snaps>>

FreezeInit(t) ==
    LET stats == Live(Top(t).stats)
        named == SetAttr(SetAttr(SetAttr(SetAttr(FrozenInit,
                     "name", Name(stats)), "filename", Filename(stats)),
                     "lineno", Lineno(stats)), "module", Module(stats))
    IN /\ pc[t] = "fz_init"
       /\ frozen' = Append(frozen, named)
       /\ frame' = [frame EXCEPT ![t].stack =
                       SetTop(t, [Top(t) EXCEPT !.self = Len(frozen) + 1])]
       /\ pc' = [pc EXCEPT ![t] = "fz_own_count"]
       /\ UNCHANGED <<liveVars, lock, last, ensured, created, snaps, after>>

FreezeOwnCount(t) ==
    /\ pc[t] = "fz_own_count"
    /\ frozen' = [frozen EXCEPT ![Top(t).self] =
                     SetAttr(@, "own_count", OwnCount(Live(Top(t).stats)))]
    /\ pc' = [pc EXCEPT ![t] = "fz_deep_time"]
    /\ UNCHANGED <<liveVars, lock, last, ensured, created, snaps, after, frame>>

FreezeDeepTime(t) ==
    /\ pc[t] = "fz_deep_time"
    /\ frozen' = [frozen EXCEPT ![Top(t).self] =
                     SetAttr(@, "deep_time", DeepTime(Live(Top(t).stats)))]
    /\ pc' = [pc EXCEPT ![t] = "fz_lock"]
    /\ UNCHANGED <<liveVars, lock, last, ensured, created, snaps, after, frame>>

FreezeLock(t) ==
    /\ pc[t] = "fz_lock"
    /\ CanAcquire(t, Top(t).stats)
    /\ lock' = Acquire(t, Top(t).stats)
    /\ pc' = [pc EXCEPT ![t] = "fz_iter"]
    /\ UNCHANGED <<liveVars, frozen, last, ensured, created, snaps, after, frame>>

FreezeDescend(t) ==
    /\ pc[t] = "fz_iter"
    /\ Top(t).at <= Len(_children[Top(t).stats])
    /\ frame' = [frame EXCEPT ![t].stack =
                    Append(SetTop(t, [Top(t) EXCEPT !.at = @ + 1]),
                           Entry(_children[Top(t).stats][Top(t).at].val[2]))]
    /\ pc' = [pc EXCEPT ![t] = "fz_init"]
    /\ UNCHANGED <<liveVars, lock, frozen, last, ensured, created, snaps, after>>

FreezeReturn(t) ==
    LET below == SubSeq(Stack(t), 1, Len(Stack(t)) - 1)
        caller == below[Len(below)]
    IN /\ pc[t] = "fz_iter"
       /\ Top(t).at > Len(_children[Top(t).stats])
       /\ lock[Top(t).stats].owner = t
       /\ lock' = Release(t, Top(t).stats)
       /\ frozen' = [frozen EXCEPT ![Top(t).self]._children = Top(t).list]
       /\ IF below = <<>>
          THEN /\ pc' = [pc EXCEPT ![t] = "idle"]
               /\ frame' = [frame EXCEPT ![t] = IdleFrame]
          ELSE /\ pc' = [pc EXCEPT ![t] = "fz_iter"]
               /\ frame' = [frame EXCEPT ![t].stack =
                               [below EXCEPT ![Len(below)] =
                                   [caller EXCEPT !.list =
                                       Append(@, Froz(Top(t).self))]]]
       /\ UNCHANGED <<liveVars, last, ensured, created, snaps, after>>

(***************************************************************************)
(* SpecSnap: the consumer thread freezes subtrees while the sampler goes   *)
(* on calling ensure_child and remove_child and writing counters.  Each of *)
(* the sampler's calls runs under the lock of its node from beginning to   *)
(* end, so it is one step, taken when that lock is free; a counter write   *)
(* takes no lock.  shown[f] is, for the frozen object f, the recording     *)
(* node it copies, the states of that node (own_count, deep_time and the   *)
(* identities of its children) at every instant from the start of          *)
(* FrozenStatistics(node) until it returned, and whether it has returned.  *)
(* after counts the sampler's steps, of which there are at most            *)
(* MaxSampled.                                                             *)
(***************************************************************************)
Consumer == NumThreads
Freezing(t) ==
    pc[t] \in {"fz_init", "fz_own_count", "fz_deep_time", "fz_lock", "fz_iter"}
Entries ==
    UNION {{Stack(t)[i] : i \in 1..Len(Stack(t))} :
              t \in {u \in Threads : Freezing(u)}}
EntryOf(f) == CHOOSE e \in Entries : e.self = f
InProgress(f) == \E e \in Entries : e.self = f
NodeState(n) ==
    <<OwnCount(Live(n)), DeepTime(Live(n)),
      {Hash(Iter(Live(n))[j]) : j \in 1..Len(Iter(Live(n)))}>>

TrackSeen ==
    /\ shown' =
         [f \in 1..Len(frozen') |->
             IF f <= Len(shown)
             THEN IF shown[f].done THEN shown[f]
                  ELSE CHOOSE r \in
                         {[stats |-> n,
                           seen |-> shown[f].seen \cup {NodeState(n)'},
                           done |-> ~InProgress(f)'] : n \in {shown[f].stats}} :
                         TRUE
             ELSE CHOOSE r \in
                    {[stats |-> n,
                      seen |-> {NodeState(n), NodeState(n)'},
                      done |-> FALSE] : n \in {EntryOf(f).stats'}} : TRUE]
    /\ UNCHANGED <<last, ensured, created, snaps>>

Consume == TrackSeen /\ UNCHANGED after
Sample ==
    /\ after < MaxSampled
    /\ after' = after + 1
    /\ TrackSeen

LockFree(n) == lock[n].owner = 0

NextSnap ==
    \/ \E n \in LiveNodes : StartFreeze(Consumer, n) /\ Consume
    \/ FreezeInit(Consumer) /\ Consume
    \/ FreezeOwnCount(Consumer) /\ Consume
    \/ FreezeDeepTime(Consumer) /\ Consume
    \/ FreezeLock(Consumer) /\ Consume
    \/ FreezeDescend(Consumer) /\ Consume
    \/ FreezeReturn(Consumer) /\ Consume
    \/ \E p \in LiveNodes, k \in Codes, c \in StatClasses :
          LockFree(p) /\ EnsureChild(p, k, c) /\ Sample
    \/ \E p \in LiveNodes, k \in Codes :
          LockFree(p) /\ RemoveChild(p, k) /\ Sample
    \/ \E n \in LiveNodes, v \in Counts : SetOwnCount(n, v) /\ Sample
    \/ \E n \in LiveNodes, v \in Times : SetDeepTime(n, v) /\ Sample

SpecSnap == Init /\ [][NextSnap]_vars

(***************************************************************************)
(* get_child, add_child, remove_child, discard_child and `code in node`    *)
(* run by a thread, statement by statement.  The first four take the lock  *)
(* of the node (op_lock) and then access the child map and leave the with  *)
(* block (op_access), which releases the lock also when the access raises  *)
(* KeyError; __contains__ reads the child map without taking the lock.     *)
(* frame[t].op is the method the thread is in and frame[t].stats the node  *)
(* an add_child was given: a node the caller has just constructed.  What   *)
(* a call returns or raises is not kept.                                   *)
(***************************************************************************)
OpFrame(op, p, k, stats) ==
    [op |-> op, stats |-> stats] @@ [IdleFrame EXCEPT !.self = p, !.code = k]

StartOp(t, op, p, k) ==
    /\ pc[t] = "idle"
    /\ pc' = [pc EXCEPT ![t] = "op_lock"]
    /\ frame' = [frame EXCEPT ![t] = OpFrame(op, p, k, 0)]
    /\ UNCHANGED <<liveVars, lock, frozen, last, ensured, created, snaps, shown>>

StartAdd(t, p, k, cls, c) ==
    /\ pc[t] = "idle"
    /\ Len(kind) + Cardinality(MayConstruct) < MaxNodes
    /\ kind' = NewKind(cls)
    /\ code' = NewCode(Some(c))
    /\ own_count' = NewOwnCount(cls)
    /\ deep_time' = NewDeepTime(cls)
    /\ _children' = NewChildren
    /\ lock' = NewLock
    /\ pc' = [pc EXCEPT ![t] = "op_lock"]
    /\ frame' = [frame EXCEPT ![t] = OpFrame("add_child", p, k, Len(kind) + 1)]
    /\ UNCHANGED <<frozen, last, ensured, created, snaps, shown>>

OpLock(t) ==
    /\ pc[t] = "op_lock"
    /\ CanAcquire(t, frame[t].self)
    /\ lock' = Acquire(t, frame[t].self)
    /\ pc' = [pc EXCEPT ![t] = "op_access"]
    /\ UNCHANGED <<liveVars, frozen, histVars, frame>>

Return(t) ==
    /\ pc' = [pc EXCEPT ![t] = "idle"]
    /\ frame' = [frame EXCEPT ![t] = IdleFrame]

OpGet(t) ==
    /\ pc[t] = "op_access"
    /\ frame[t].op = "get_child"
    /\ lock[frame[t].self].owner = t
    /\ lock' = Release(t, frame[t].self)
    /\ Return(t)
    /\ UNCHANGED <<liveVars, frozen, histVars>>

OpAdd(t) ==
    /\ pc[t] = "op_access"
    /\ frame[t].op = "add_child"
    /\ lock[frame[t].self].owner = t
    /\ _children' = [_children EXCEPT ![frame[t].self] =
                        DictSet(@, frame[t].code, Live(frame[t].stats))]
    /\ lock' = Release(t, frame[t].self)
    /\ Return(t)
    /\ UNCHANGED <<kind, code, own_count, deep_time, frozen, histVars>>

OpRemoveKeepsLock(t) ==
    /\ pc[t] = "op_access"
    /\ frame[t].op = "remove_child"
    /\ lock[frame[t].self].owner = t
    /\ IF DictHas(_children[frame[t].self], frame[t].code)
       THEN /\ _children' = [_children EXCEPT ![frame[t].self] =
                                DictDel(@, frame[t].code)]
            /\ lock' = Release(t, frame[t].self)
       ELSE UNCHANGED <<_children, lock>>
    /\ Return(t)
    /\ UNCHANGED <<kind, code, own_count, deep_time, frozen, histVars>>

OpRemove(t) ==
    /\ pc[t] = "op_access"
    /\ frame[t].op = "remove_child"
    /\ lock[frame[t].self].owner = t
    /\ lock' = Release(t, frame[t].self)
    /\ IF DictHas(_children[frame[t].self], frame[t].code)
       THEN /\ _children' = [_children EXCEPT ![frame[t].self] =
                                DictDel(@, frame[t].code)]
            /\ Return(t)
       ELSE /\ UNCHANGED _children
            /\ Return(t)
    /\ UNCHANGED <<kind, code, own_count, deep_time, frozen, histVars>>

OpDiscard(t) ==
    /\ pc[t] = "op_access"
    /\ frame[t].op = "discard_child"
    /\ lock[frame[t].self].owner = t
    /\ _children' = [_children EXCEPT ![frame[t].self] =
                        DictPop(@, frame[t].code)]
    /\ lock' = Release(t, frame[t].self)
    /\ Return(t)
    /\ UNCHANGED <<kind, code, own_count, deep_time, frozen, histVars>>

StartContains(t, p, k) ==
    /\ pc[t] = "idle"
    /\ pc' = [pc EXCEPT ![t] = "contains_read"]
    /\ frame' = [frame EXCEPT ![t] = OpFrame("__contains__", p, k, 0)]
    /\ UNCHANGED <<liveVars, lock, frozen, last, ensured, created, snaps, shown>>

ContainsRead(t) ==
    /\ pc[t] = "contains_read"
    /\ Return(t)
    /\ UNCHANGED <<liveVars, lock, frozen, histVars>>

(***************************************************************************)
(* SpecThreads: a tree is built by ensure_child; then the threads call     *)
(* get_child, add_child, remove_child, discard_child, ensure_child and     *)
(* `code in node` on its nodes and freeze its subtrees, MaxCalls calls in  *)
(* all, and a thread may be switched out between any two of its steps.     *)
(* after counts the calls the threads have started.                        *)
(***************************************************************************)
Lookups == {"get_child", "remove_child", "discard_child"}
Building == after = 0 /\ \A t \in Threads : pc[t] = "idle"
Begin == after < MaxCalls /\ after' = after + 1

NextThreads ==
    \/ \E p \in LiveNodes, k \in Codes, c \in StatClasses :
          Building /\ EnsureChild(p, k, c) /\ UNCHANGED histVars
    \/ \E t \in Threads :
          \/ \E op \in Lookups, p \in LiveNodes, k \in Codes :
                StartOp(t, op, p, k) /\ Begin
          \/ \E p \in LiveNodes, k \in Codes, cls \in Classes, c \in Codes :
                StartAdd(t, p, k, cls, c) /\ Begin
          \/ OpLock(t)
          \/ OpGet(t)
          \/ OpAdd(t)
          \/ OpRemove(t)
          \/ OpDiscard(t)
          \/ \E p \in LiveNodes, k \in Codes : StartContains(t, p, k) /\ Begin
          \/ ContainsRead(t)
          \/ \E p \in LiveNodes, k \in Codes, c \in StatClasses :
                EnsureCall(t, p, k, c) /\ Begin
          \/ EnsureLock(t)
          \/ GetLock(t)
          \/ GetRead(t)
          \/ EnsureNew(t)
          \/ AddLock(t)
          \/ AddWrite(t)
          \/ EnsureUnlock(t)
          \/ \E n \in LiveNodes : StartFreeze(t, n) /\ Begin /\ UNCHANGED shown
          \/ FreezeInit(t) /\ UNCHANGED shown
          \/ FreezeOwnCount(t) /\ UNCHANGED shown
          \/ FreezeDeepTime(t) /\ UNCHANGED shown
          \/ FreezeLock(t) /\ UNCHANGED shown
          \/ FreezeDescend(t) /\ UNCHANGED shown
          \/ FreezeReturn(t) /\ UNCHANGED shown

SpecThreads == Init /\ [][NextThreads]_vars

(***************************************************************************)
(* SpecLive: SpecThreads under fair scheduling: a thread that can take a   *)
(* step of the call it is in eventually takes one.  Starting a call is not *)
(* a step the scheduler owes.                                              *)
(***************************************************************************)
Step(t) ==
    \/ OpLock(t)
    \/ OpGet(t)
    \/ OpAdd(t)
    \/ OpRemove(t)
    \/ OpDiscard(t)
    \/ ContainsRead(t)
    \/ EnsureLock(t)
    \/ GetLock(t)
    \/ GetRead(t)
    \/ EnsureNew(t)
    \/ AddLock(t)
    \/ AddWrite(t)
    \/ EnsureUnlock(t)
    \/ FreezeInit(t) /\ UNCHANGED shown
    \/ FreezeOwnCount(t) /\ UNCHANGED shown
    \/ FreezeDeepTime(t) /\ UNCHANGED shown
    \/ FreezeLock(t) /\ UNCHANGED shown
    \/ FreezeDescend(t) /\ UNCHANGED shown
    \/ FreezeReturn(t) /\ UNCHANGED shown

SpecLive == SpecThreads /\ \A t \in Threads : WF_vars(Step(t))

(***************************************************************************)
(* The claims.                                                             *)
(***************************************************************************)
StoredCount(o) ==
    IF IsLive(o)
    THEN IF kind[o[2]] = "RecordingStatistics" THEN own_count[o[2]] ELSE 0
    ELSE frozen[o[2]].own_count
ChildrenOf(o) ==
    IF IsLive(o) THEN [j \in 1..Len(_children[o[2]]) |-> _children[o[2]][j].val]
    ELSE frozen[o[2]]._children
ChildTimes(o) == [j \in 1..Len(ChildrenOf(o)) |-> DeepTime(ChildrenOf(o)[j])]

\* C1: for every node of every kind (recording, void, frozen), deep_count
\* is the node's own count plus the deep counts of its current direct
\* children.
C1_DeepCountIsSum ==
    \A o \in Objects :
        DeepCount(o) =
            StoredCount(o)
            + SumSeq([j \in 1..Len(ChildrenOf(o)) |-> DeepCount(ChildrenOf(o)[j])])

C1_Witness ==
    /\ \E i \in LiveNodes :
          /\ kind[i] = "RecordingStatistics"
          /\ own_count[i] > 0
          /\ \E j \in 1..Len(_children[i]) :
                /\ kind[_children[i][j].val[2]] = "VoidRecordingStatistics"
                /\ DeepCount(_children[i][j].val) > 0
    /\ \E f \in FrozenNodes :
          /\ frozen[f].own_count > 0
          /\ DeepCount(Froz(f)) > frozen[f].own_count

\* C2: an ensure_child(k) on p that follows an ensure_child(k) on p, with no
\* add_child, remove_child or discard_child of k on p in between, returns
\* the child the earlier call returned and changes no child map.
C2_EnsureTwice ==
    [][\A e \in ensured :
          (last'.op = "ensure_child" /\ last'.self = e[1] /\ last'.code = e[2])
          => /\ last'.ret = Some(e[3])
             /\ _children' = _children
             /\ Len(_children'[e[1]]) = Len(_children[e[1]])]_vars

C2_Witness ==
    /\ last.op = "ensure_child"
    /\ last.again
    /\ Len(_children[last.self]) = 2

\* C3: when threads call ensure_child(k) on the same node p at the same
\* time, only one child is ever constructed for k, no constructed child is
\* lost from p's child map or overwritten in it, and every call returns the
\* child that is in the map.
Adding(c) ==
    \E t \in Threads :
        /\ pc[t] \in {"add_lock", "add_write"}
        /\ frame[t].self = c[1]
        /\ frame[t].code = c[2]
        /\ frame[t].ret = Some(c[3])
C3_EnsureIsAtomic ==
    /\ \A c, d \in created : (c[1] = d[1] /\ c[2] = d[2]) => c = d
    /\ \A c \in created :
          \/ Adding(c)
          \/ /\ DictHas(_children[c[1]], c[2])
             /\ DictGet(_children[c[1]], c[2]) = c[3]
    /\ \A e \in ensured :
          /\ e \in created
          /\ DictHas(_children[e[1]], e[2])
          /\ DictGet(_children[e[1]], e[2]) = e[3]

C3_Witness ==
    \E t, u \in Threads :
        /\ t # u
        /\ pc[t] = "ensure_unlock"
        /\ pc[u] = "ensure_lock"
        /\ frame[t].self = frame[u].self
        /\ frame[t].code = frame[u].code
        /\ ~CanAcquire(u, frame[u].self)
        /\ <<frame[t].self, frame[t].code, frame[t].ret[1]>> \in created
        /\ <<frame[t].self, frame[t].code, frame[t].ret[1]>> \notin ensured

\* C4: whatever is done to the recording heap after a freeze has returned,
\* every frozen node shows the attributes, the child sequence, the
\* deep_count and the own_time it showed when that freeze returned.
C4_FrozenIsImmutable ==
    \A f \in FrozenNodes : FrozenView(f) = shown[f]

C4_Witness ==
    /\ after > 0
    /\ \E f \in FrozenNodes :
          /\ Len(frozen[f]._children) > 0
          /\ \E i \in LiveNodes :
                /\ Hash(Live(i)) = Hash(Froz(f))
                /\ DeepCount(Live(i)) # DeepCount(Froz(f))

\* C5: a snapshot taken with the tree left alone mirrors the subtree node for
\* node: the same six attributes, the same number of children in the order
\* the child map yields them, and the same deep_count.
RECURSIVE Mirror(_, _)
Mirror(f, l) ==
    /\ ~IsLive(f)
    /\ Name(f) = Name(l)
    /\ Filename(f) = Filename(l)
    /\ Lineno(f) = Lineno(l)
    /\ Module(f) = Module(l)
    /\ OwnCount(f) = OwnCount(l)
    /\ DeepTime(f) = DeepTime(l)
    /\ DeepCount(f) = DeepCount(l)
    /\ Len(ChildrenOf(f)) = Len(ChildrenOf(l))
    /\ \A j \in 1..Len(ChildrenOf(f)) :
          j <= Len(ChildrenOf(l)) => Mirror(ChildrenOf(f)[j], ChildrenOf(l)[j])
C5_FreezeMirrors ==
    \A i \in 1..Len(snaps) : Mirror(Froz(snaps[i].root), Live(snaps[i].stats))

C5_Witness ==
    \E i \in 1..Len(snaps) :
        /\ Len(_children[snaps[i].stats]) = 2
        /\ kind[_children[snaps[i].stats][1].val[2]] = "VoidRecordingStatistics"
        /\ DeepCount(_children[snaps[i].stats][2].val) > 0
        /\ DeepTime(_children[snaps[i].stats][2].val) > 0
        /\ Hash(_children[snaps[i].stats][1].val)
             # Hash(_children[snaps[i].stats][2].val)

\* C6: two snapshots of the same subtree, taken with the tree left alone,
\* have the same attribute values and child structure and share no node.
RECURSIVE SameContent(_, _)
SameContent(a, b) ==
    /\ Name(a) = Name(b)
    /\ Filename(a) = Filename(b)
    /\ Lineno(a) = Lineno(b)
    /\ Module(a) = Module(b)
    /\ OwnCount(a) = OwnCount(b)
    /\ DeepTime(a) = DeepTime(b)
    /\ Len(ChildrenOf(a)) = Len(ChildrenOf(b))
    /\ \A j \in 1..Len(ChildrenOf(a)) :
          j <= Len(ChildrenOf(b))
          => SameContent(ChildrenOf(a)[j], ChildrenOf(b)[j])
RECURSIVE Subtree(_)
Subtree(o) ==
    {o} \cup UNION {Subtree(ChildrenOf(o)[j]) : j \in 1..Len(ChildrenOf(o))}
C6_FreezeTwice ==
    \A i, j \in 1..Len(snaps) :
        (i < j /\ snaps[i].stats = snaps[j].stats)
        => /\ SameContent(Froz(snaps[i].root), Froz(snaps[j].root))
           /\ Subtree(Froz(snaps[i].root)) \cap Subtree(Froz(snaps[j].root)) = {}

C6_Witness ==
    /\ Len(snaps) = 2
    /\ snaps[1].stats = snaps[2].stats
    /\ Len(_children[snaps[1].stats]) > 0
    /\ DeepCount(Live(snaps[1].stats)) > 0

\* C7: with k absent from p's child map, get_child(k) and remove_child(k)
\* raise KeyError and discard_child(k) returns, and none of them changes a
\* child map; with k present, remove_child(k) and discard_child(k) return
\* and delete the item of k from p's map and nothing else.
Without(d, k) == SelectSeq(d, LAMBDA it : it.key # k)
C7_AbsentAndPresent ==
    [][\A p \in LiveNodes, k \in Codes :
          (last'.self = p /\ last'.code = k)
          => /\ (/\ last'.op \in {"get_child", "remove_child"}
                 /\ ~DictHas(_children[p], k))
                => (last'.exc = "KeyError" /\ _children' = _children)
             /\ (last'.op = "discard_child" /\ ~DictHas(_children[p], k))
                => (last'.exc = "" /\ _children' = _children)
             /\ (/\ last'.op \in {"remove_child", "discard_child"}
                 /\ DictHas(_children[p], k))
                => /\ last'.exc = ""
                   /\ _children' = [_children EXCEPT ![p] = Without(@, k)]]_vars

C7_Witness ==
    /\ last.op = "remove_child"
    /\ last.exc = "KeyError"
    /\ Len(_children[last.self]) > 0

\* C8: two nodes with the same (name, filename, lineno) compare equal and
\* hash identically, whatever their counters; two nodes that differ in one
\* of the three compare unequal.
Identity(o) == <<Name(o), Filename(o), Lineno(o)>>
C8_EqualByIdentity ==
    \A a, b \in Objects :
        /\ Identity(a) = Identity(b) => (Eq(a, b) /\ Hash(a) = Hash(b))
        /\ Identity(a) # Identity(b) => ~Eq(a, b)

\* C9: own_time is max(0, deep_time minus the children's deep_time), and so
\* never negative, for every node of every kind.
C9_OwnTimeFloored ==
    \A o \in Objects :
        /\ OwnTime(o) >= 0
        /\ OwnTime(o) = IF DeepTime(o) >= SumSeq(ChildTimes(o))
                        THEN DeepTime(o) - SumSeq(ChildTimes(o)) ELSE 0

C9_Witness ==
    \E i \in LiveNodes :
        /\ kind[i] = "RecordingStatistics"
        /\ SumSeq(ChildTimes(Live(i))) > deep_time[i]
        /\ OwnTime(Live(i)) = 0

\* C10: with own_count 0 both per-call averages are the value 0 and no
\* ZeroDivisionError comes out, whatever deep_time and the children are.
C10_PerCallZero ==
    \A o \in Objects :
        OwnCount(o) = 0
        => /\ DeepTimePerCall(o) = <<0, 1>>
           /\ OwnTimePerCall(o) = <<0, 1>>

C10_Witness ==
    /\ \E i \in LiveNodes :
          /\ kind[i] = "RecordingStatistics"
          /\ own_count[i] = 0
          /\ deep_time[i] > 0
          /\ OwnTime(Live(i)) > 0
    /\ \E i \in LiveNodes :
          /\ kind[i] = "VoidRecordingStatistics"
          /\ DeepTime(Live(i)) > 0

\* C11: a void node reads own_count 0 and reads deep_time as the sum of its
\* current children's deep_time, so its deep_count is the sum of its
\* children's deep_count; a write to either counter of a void node changes
\* nothing that any node reads.
IsVoid(n) == kind[n] = "VoidRecordingStatistics"
C11_VoidIsComputed ==
    [][/\ \A v \in 1..Len(kind') :
             IsVoid(v)'
             => /\ OwnCount(Live(v))' = 0
                /\ DeepTime(Live(v))' = SumSeq(ChildTimes(Live(v)))'
                /\ DeepCount(Live(v))' =
                      SumSeq([j \in 1..Len(ChildrenOf(Live(v))) |->
                                 DeepCount(ChildrenOf(Live(v))[j])])'
       /\ (/\ last'.op \in {"set_own_count", "set_deep_time"}
           /\ IsVoid(last'.self))
          => /\ _children' = _children
             /\ \A n \in LiveNodes :
                   /\ OwnCount(Live(n))' = OwnCount(Live(n))
                   /\ DeepTime(Live(n))' = DeepTime(Live(n))]_vars

C11_Witness ==
    /\ last.op = "set_deep_time"
    /\ IsVoid(last.self)
    /\ Len(_children[last.self]) > 0
    /\ DeepTime(Live(last.self)) > last.code
    /\ DeepCount(Live(last.self)) > 0

\* C12: pickling a recording node of either kind, with or without children,
\* and calling its __getstate__, raise TypeError and leave every node, child
\* map and lock as they were; pickling a frozen node made by a freeze
\* succeeds.
C12_LiveNotSerializable ==
    [][/\ (last'.op \in {"dumps", "__getstate__"} /\ IsLive(last'.obj))
          => /\ last'.exc = "TypeError"
             /\ liveVars' = liveVars
             /\ lock' = lock
             /\ frozen' = frozen
       /\ (/\ last'.op = "dumps"
           /\ ~IsLive(last'.obj)
           /\ frozen[last'.obj[2]].unset = {})
          => /\ last'.exc = ""
             /\ last'.ret # None]_vars

C12_Witness ==
    /\ last.op = "dumps"
    /\ last.exc = "TypeError"
    /\ IsLive(last.obj)
    /\ IsVoid(last.obj[2])
    /\ Len(_children[last.obj[2]]) > 0
    /\ frozen # <<>>

\* C13: dumping a frozen node made by a freeze and loading the result gives
\* a frozen tree of new nodes that has, node for node, the six attribute
\* values and the child sequence of the node dumped, with every slot set.
C13_RoundTrip ==
    (last.op = "loads")
    => /\ SameContent(last.obj, last.ret[1])
       /\ DeepCount(last.obj) = DeepCount(last.ret[1])
       /\ Subtree(last.obj) \cap Subtree(last.ret[1]) = {}
       /\ \A o \in Subtree(last.ret[1]) : frozen[o[2]].unset = {}

C13_Witness ==
    /\ last.op = "loads"
    /\ Len(frozen[last.obj[2]]._children) > 0
    /\ frozen[last.obj[2]].name = None
    /\ frozen[frozen[last.obj[2]]._children[1][2]].name # None
    /\ DeepCount(last.ret[1]) > frozen[last.ret[1][2]].own_count

\* C14: while a thread freezes, it holds the lock of a node it visits only
\* while it enumerates that node's children: once it is at work on a child,
\* the lock of the parent (and of every node further up) is free, so
\* another thread can change the parent's child map.
C14_LockOnlyWhileEnumerating ==
    \A t \in Threads :
        Freezing(t)
        => \A i \in 1..(Len(Stack(t)) - 1) :
              /\ lock[Stack(t)[i].stats].owner # t
              /\ \A u \in Threads \ {t} : CanAcquire(u, Stack(t)[i].stats)

\* C15: for every frozen node F made from a node N while the sampler calls
\* ensure_child and remove_child on N and writes N's counters, there was an
\* instant during FrozenStatistics(N) at which N had the own_count, the
\* deep_time and the child identities that F holds.
C15_ConsistentPerNode ==
    \A f \in 1..Len(shown) :
        shown[f].done
        => <<frozen[f].own_count, frozen[f].deep_time,
             {Hash(frozen[f]._children[j]) : j \in 1..Len(frozen[f]._children)}>>
           \in shown[f].seen

\* C16: a thread that reads or writes a node's child map in get_child,
\* add_child, remove_child, discard_child, ensure_child or `code in node`
\* holds that node's lock while it does.
C16_MapAccessUnderLock ==
    \A t \in Threads :
        pc[t] \in {"op_access", "get_read", "add_write", "contains_read"}
        => lock[frame[t].self].owner = t

\* C18: with threads running get_child, add_child, remove_child,
\* discard_child, ensure_child and freezes at the same time on a tree built
\* by ensure_child, under fair scheduling every call that has started
\* returns or raises, and a thread that is in no call holds no lock.
Held(t) == {n \in LiveNodes : lock[n].owner = t}
C18_EveryCallCompletes ==
    /\ [](\A t \in Threads : pc[t] = "idle" => Held(t) = {})
    /\ \A t \in Threads : (pc[t] # "idle") ~> (pc[t] = "idle")

C18_Witness ==
    \E t, u \in Threads :
        /\ t # u
        /\ pc[t] = "fz_lock"
        /\ Len(Stack(t)) > 1
        /\ Held(t) # {}
        /\ ~CanAcquire(t, Top(t).stats)
        /\ Freezing(u)

\* C17: after any sequence of ensure_child, add_child, remove_child and
\* discard_child calls, the children of a node have pairwise distinct
\* identities and each child is stored under the code object its own
\* identity comes from.
C17_NoDuplicateIdentity ==
    \A p \in LiveNodes :
        \A i, j \in 1..Len(_children[p]) :
            /\ code[_children[p][i].val[2]] = Some(_children[p][i].key)
            /\ i # j => Identity(_children[p][i].val) # Identity(_children[p][j].val)

\* C19: ensure_child(k, kind) on p with k absent makes one new node, of the
\* kind asked for or of p's kind when none is, with code k, own_count 0,
\* deep_time 0 and no children, appends it to p's map under k and returns
\* it; with k present it returns the child stored under k and changes
\* nothing; every other item of p's map, every other map and every counter
\* stay as they were.
C19_EnsureChildEffect ==
    [][(last'.op = "ensure_child")
       => \A p \in {last'.self}, k \in {last'.code}, new \in {Len(kind) + 1} :
             IF DictHas(_children[p], k)
             THEN /\ last'.ret = Some(DictGet(_children[p], k))
                  /\ liveVars' = liveVars
                  /\ frozen' = frozen
             ELSE /\ Len(kind') = new
                  /\ kind'[new] = (IF last'.cls = None THEN kind[p]
                                   ELSE last'.cls[1])
                  /\ code'[new] = Some(k)
                  /\ OwnCount(Live(new))' = 0
                  /\ DeepTime(Live(new))' = 0
                  /\ _children'[new] = <<>>
                  /\ _children'[p] = Append(_children[p], Item(k, Live(new)))
                  /\ last'.ret = Some(Live(new))
                  /\ frozen' = frozen
                  /\ \A n \in LiveNodes :
                        /\ n # p => _children'[n] = _children[n]
                        /\ kind'[n] = kind[n]
                        /\ code'[n] = code[n]
                        /\ own_count'[n] = own_count[n]
                        /\ deep_time'[n] = deep_time[n]]_vars

C19_Witness ==
    /\ last.op = "ensure_child"
    /\ last.cls = None
    /\ IsVoid(last.self)
    /\ last.ret = Some(Live(Len(kind)))
    /\ IsVoid(Len(kind))
    /\ Len(_children[Len(kind)]) = 0
    /\ \E n \in LiveNodes : own_count[n] > 0 /\ deep_time[n] > 0

\* C20: a new object of any class, a FrozenStatistics() made with no node
\* included, has every slot its constructor did not assign set to the
\* default the class inherits: own_count 0, deep_time 0, and None for name,
\* filename, lineno and module.
C20_DefaultsInherited ==
    \A f \in FrozenNodes :
        /\ frozen[f].unset = {}
        /\ last.op = "FrozenStatistics" /\ last.ret = Some(Froz(f))
           => /\ frozen[f].own_count = DefaultOwnCount
              /\ frozen[f].deep_time = DefaultDeepTime
              /\ frozen[f].name = None
              /\ frozen[f]._children = <<>>

====
